---------------------------- MODULE Spec2Model ----------------------------
(***************************************************************************)
(* MateriAI (src/streamlit_app.py): the button handler of main(), the      *)
(* three text-generation wrappers, get_image_from_dalle and display_table. *)
(*                                                                         *)
(* A Python str is a sequence of one-character strings.  The three field   *)
(* labels are written with one atomic element for the word and its colon   *)
(* ("Properties:", "Pros:", "Cons:") followed by the element " ": no other *)
(* element of the alphabets used here holds a letter of those words, so an *)
(* occurrence of the label in the text is an occurrence of the two         *)
(* elements in the sequence, and str.replace acts on both alike.           *)
(* A value that may be None is a record [some, val].                       *)
(***************************************************************************)
EXTENDS Naturals, Sequences, FiniteSets

VARIABLES
    pc,                \* position in main(): "idle", "fetch", "table", "loop", "render", "end"
    user_input,        \* st.text_area value (line 162)
    explanation_type,  \* st.radio value (line 168)
    summarized_input,  \* main's local (line 175)
    output,            \* main's local (lines 185/187)
    paragraphs,        \* display_table's local (line 32)
    idx,               \* position of the for loop of line 37 in paragraphs
    image_url,         \* display_table's local (line 53)
    materials,         \* display_table's local (line 36), then df
    shown,             \* the material names rendered by lines 193-201
    messages,          \* the st.warning / st.error / st.success / summary messages issued
    calls,             \* the functions of the module called so far in this run
    fn,                \* field extraction under test: "name", "properties", "pros", "cons"
    arg,               \* the line it is applied to
    ret                \* its result (None before it is applied)

vars == <<pc, user_input, explanation_type, summarized_input, output, paragraphs,
          idx, image_url, materials, shown, messages, calls, fn, arg, ret>>

mainVars == <<pc, user_input, explanation_type, summarized_input, output, paragraphs,
              idx, image_url, materials, shown, messages, calls>>

lineVars == <<fn, arg, ret>>

-----------------------------------------------------------------------------
(* Python values *)

None == [some |-> FALSE, val |-> <<>>]

Some(s) == [some |-> TRUE, val |-> s]

\* bool(v) of a str-or-None value: None and "" are falsy.
Truthy(v) == v.some /\ v.val # <<>>

\* The characters str.strip() removes, among those of the alphabets used here.
Whitespace == {" ", "\t", "\n"}

RECURSIVE LStripChars(_, _)
LStripChars(s, cs) ==
    IF s # <<>> /\ Head(s) \in cs THEN LStripChars(Tail(s), cs) ELSE s

RECURSIVE RStripChars(_, _)
RStripChars(s, cs) ==
    IF s # <<>> /\ s[Len(s)] \in cs
    THEN RStripChars(SubSeq(s, 1, Len(s) - 1), cs)
    ELSE s

\* str.strip()
Strip(s) == RStripChars(LStripChars(s, Whitespace), Whitespace)

StartsWith(s, p) == Len(s) >= Len(p) /\ SubSeq(s, 1, Len(p)) = p

Drop(s, n) == SubSeq(s, n + 1, Len(s))

RECURSIVE SplitFrom(_, _, _)
SplitFrom(s, sep, cur) ==
    IF s = <<>> THEN <<cur>>
    ELSE IF StartsWith(s, sep)
         THEN <<cur>> \o SplitFrom(Drop(s, Len(sep)), sep, <<>>)
         ELSE SplitFrom(Tail(s), sep, Append(cur, Head(s)))

\* str.split(sep): left to right, non-overlapping; "".split(sep) is [""].
Split(s, sep) == SplitFrom(s, sep, <<>>)

RECURSIVE Replace(_, _)
\* str.replace(old, ""): every non-overlapping occurrence, left to right, one pass.
Replace(s, old) ==
    IF s = <<>> THEN <<>>
    ELSE IF StartsWith(s, old)
         THEN Replace(Drop(s, Len(old)), old)
         ELSE <<Head(s)>> \o Replace(Tail(s), old)

NL == <<"\n">>

NLNL == <<"\n", "\n">>

-----------------------------------------------------------------------------
(* Field extraction of display_table (lines 42-45) *)

Digits == {"0", "1", "2", "3", "4", "5", "6", "7", "8", "9"}

RECURSIVE CountLeading(_, _)
CountLeading(s, cs) ==
    IF s # <<>> /\ Head(s) \in cs THEN 1 + CountLeading(Tail(s), cs) ELSE 0

\* Length of the match of ^\d+\.\s* at the start of s, 0 when it does not match.
OrdinalPrefixLen(s) ==
    LET d == CountLeading(s, Digits)
    IN  IF d >= 1 /\ Len(s) > d /\ s[d + 1] = "."
        THEN d + 1 + CountLeading(Drop(s, d + 1), Whitespace)
        ELSE 0

\* s without the match of \:$ : a colon that is the last character, or the last
\* before a final line break.
DropFinalColon(s) ==
    IF s # <<>> /\ s[Len(s)] = ":" THEN SubSeq(s, 1, Len(s) - 1)
    ELSE IF Len(s) >= 2 /\ s[Len(s)] = "\n" /\ s[Len(s) - 1] = ":"
         THEN SubSeq(s, 1, Len(s) - 2) \o NL
         ELSE s

\* re.sub(r"^\d+\.\s*|\:$", "", line).strip()  (line 42)
MaterialName(line) == Strip(DropFinalColon(Drop(line, OrdinalPrefixLen(line))))

PropertiesLabel == <<"Properties:", " ">>

ProsLabel == <<"Pros:", " ">>

ConsLabel == <<"Cons:", " ">>

\* lstrip('-') for lstrip('- '): stops at the first blank.
FieldHyphenOnly(line, label) == Strip(LStripChars(Replace(line, label), {"-"}))

\* line.replace(label, "").lstrip('- ').strip()  (lines 43-45)
Field(line, label) == Strip(LStripChars(Replace(line, label), {"-", " "}))

\* Asks for the fourth line too.
EnoughLinesWithCons(lines) == Len(lines) > 3

\* len(lines) > 2  (line 41)
EnoughLines(lines) == Len(lines) > 2

\* lines[3]... if len(lines) > 3 else ""  (line 45)
ConsOf(lines) == IF Len(lines) > 3 THEN Field(lines[4], ConsLabel) ELSE <<>>

NoImage == <<"N", "o", " ", "I", "m", "a", "g", "e">>

\* Tests the URL against None only, so an empty URL is kept.
ImageFieldNotNone(url) == IF url.some THEN url.val ELSE NoImage

\* if image_url: ... else: "No Image"  (lines 54-57)
ImageField(url) == IF Truthy(url) THEN url.val ELSE NoImage

\* The OrderedDict of lines 46-57.
Material(lines, url) ==
    [Material   |-> MaterialName(lines[1]),
     Properties |-> Field(lines[2], PropertiesLabel),
     Pros       |-> Field(lines[3], ProsLabel),
     Cons       |-> ConsOf(lines),
     Image      |-> ImageField(url)]

\* Keeps the last paragraph: [1:] for [1:-1].
MiddleKeepLast(ps) == SubSeq(ps, 2, Len(ps))

\* ps[1:-1]  (line 32)
Middle(ps) == SubSeq(ps, 2, Len(ps) - 1)

\* output.strip().split('\n\n')[1:-1]  (line 32)
Paragraphs(text) == Middle(Split(Strip(text), NLNL))

\* material_info.strip().split("\n") (lines 38-40); [] stands for the paragraph
\* that is empty once stripped, which line 39 skips.
LinesOf(material_info) ==
    IF Strip(material_info) = <<>> THEN <<>> ELSE Split(Strip(material_info), NL)

-----------------------------------------------------------------------------
(* What the outside world supplies: the text typed, the radio choice, and the *)
(* outcome of each OpenAI request.                                            *)

\* An OpenAI request raises, or returns a value (which, for an image URL, may be
\* None or empty).
Raised == [ok |-> FALSE, val |-> None]

Returned(v) == [ok |-> TRUE, val |-> v]

\* try: return <value>  except Exception: st.warning/st.error(...); return None
\* (lines 17-28, 66-81, 85-100, 104-120)
Result(o) == IF o.ok THEN o.val ELSE None

RECURSIVE Join(_, _)
Join(ps, sep) ==
    IF ps = <<>> THEN <<>>
    ELSE IF Len(ps) = 1 THEN ps[1]
    ELSE ps[1] \o sep \o Join(Tail(ps), sep)

UserInputs ==
    { <<>>, <<" ">>, <<"\n">>, <<" ", "\t", "\n">>, <<" ", "a", "\n">> }

ExplanationTypes == {"Brief", "Detailed"}

SummaryOutcomes == {Raised, Returned(Some(<<>>)), Returned(Some(<<"s">>))}

URL == <<"u">>

ImageOutcomes == {Raised, Returned(None), Returned(Some(<<>>)), Returned(Some(URL))}

\* The paragraph blocks the generated responses are built from.
Intro == <<"x">>

BlockA ==
    Join(<< <<"1", ".", " ", "A", ":">>,
            <<"Properties:", " ", "-", " ", "p">>,
            <<"Pros:", " ", "-", " ", "q">> >>, NL)

BlockB ==
    Join(<< <<"2", ".", " ", "B", ":">>,
            <<"Properties:", " ", "p">>,
            <<"Pros:", " ", "q">>,
            <<"Cons:", " ", "r">> >>, NL)

\* A bare ordinal as its first line and a whitespace-only second line.
BlockOdd == Join(<< <<"1", ".">>, <<" ">>, <<"q">> >>, NL)

\* Two lines after an extra line break.
BlockShort == Join(<< <<>>, <<"D">>, <<"E">> >>, NL)

Blocks == {<<>>, Intro, BlockA, BlockB, BlockOdd, BlockShort}

MaxParas == 4

\* Every response of at most MaxParas blocks separated by blank lines.
Texts == { Join(ps, NLNL) : ps \in UNION { [1..n -> Blocks] : n \in 0..MaxParas } }

FetchOutcomes == {Raised} \cup { Returned(Some(t)) : t \in Texts }

-----------------------------------------------------------------------------
(* main(), from the click of line 170 on *)

\* Rejects only the empty string: if not user_input.
IsEmptyInput(text) == text = <<>>

\* not user_input.strip()  (line 171)
IsBlankInput(text) == Strip(text) = <<>>

\* Never stops after the summary.
SummaryNeverMissing(v) == FALSE

\* not summarized_input  (line 176)
SummaryMissing(v) == ~Truthy(v)

\* if output:  (line 189)
OutputUsable(v) == Truthy(v)

MainInit ==
    /\ pc = "idle"
    /\ user_input \in UserInputs
    /\ explanation_type \in ExplanationTypes
    /\ summarized_input = None
    /\ output = None
    /\ paragraphs = <<>>
    /\ idx = 1
    /\ image_url = None
    /\ materials = <<>>
    /\ shown = <<>>
    /\ messages = {}
    /\ calls = {}

\* Lines 171-172.
SubmitBlank ==
    /\ pc = "idle"
    /\ IsBlankInput(user_input)
    /\ messages' = messages \cup {"warning: enter a valid project description"}
    /\ pc' = "end"
    /\ UNCHANGED <<user_input, explanation_type, summarized_input, output, paragraphs,
                   idx, image_url, materials, shown, calls>>

\* Lines 175-181, with summarize_input (lines 102-120).
Summarize ==
    /\ pc = "idle"
    /\ ~IsBlankInput(user_input)
    /\ \E o \in SummaryOutcomes :
         /\ summarized_input' = Result(o)
         /\ calls' = calls \cup {"summarize_input"}
         /\ messages' = messages
                \cup (IF o.ok THEN {} ELSE {"error: summarization raised"})
                \cup (IF SummaryMissing(Result(o))
                      THEN {"error: failed to summarize"}
                      ELSE {"summarized project description"})
         /\ pc' = IF SummaryMissing(Result(o)) THEN "end" ELSE "fetch"
    /\ UNCHANGED <<user_input, explanation_type, output, paragraphs, idx, image_url,
                   materials, shown>>

\* Lines 183-189 with one of the two fetch functions (lines 64-81, 83-100).
Fetch(type, function) ==
    /\ pc = "fetch"
    /\ explanation_type = type
    /\ \E o \in FetchOutcomes :
         /\ output' = Result(o)
         /\ calls' = calls \cup {function}
         /\ messages' = messages \cup (IF o.ok THEN {} ELSE {"error: fetch raised"})
         /\ pc' = IF OutputUsable(Result(o)) THEN "table" ELSE "end"
    /\ UNCHANGED <<user_input, explanation_type, summarized_input, paragraphs, idx,
                   image_url, materials, shown>>

FetchBrief == Fetch("Brief", "fetch_brief_material_suggestions")

FetchDetailed == Fetch("Detailed", "fetch_detailed_material_suggestions")

\* display_table, lines 32-36.
DisplayTableBegin ==
    /\ pc = "table"
    /\ calls' = calls \cup {"display_table"}
    /\ paragraphs' = Paragraphs(output.val)
    /\ materials' = <<>>
    /\ idx' = 1
    /\ pc' = IF Paragraphs(output.val) = <<>> THEN "render" ELSE "loop"
    /\ UNCHANGED <<user_input, explanation_type, summarized_input, output, image_url,
                   shown, messages>>

\* display_table, one pass of the loop of lines 37-58, with get_image_from_dalle.
DisplayTableStep ==
    /\ pc = "loop"
    /\ LET lines == LinesOf(paragraphs[idx])
       IN  IF EnoughLines(lines)
           THEN \E o \in ImageOutcomes :
                  /\ image_url' = Result(o)
                  /\ materials' = Append(materials, Material(lines, Result(o)))
                  /\ calls' = calls \cup {"get_image_from_dalle"}
                  /\ messages' = messages
                         \cup (IF o.ok THEN {} ELSE {"warning: image generation raised"})
           ELSE UNCHANGED <<image_url, materials, calls, messages>>
    /\ idx' = idx + 1
    /\ pc' = IF idx = Len(paragraphs) THEN "render" ELSE "loop"
    /\ UNCHANGED <<user_input, explanation_type, summarized_input, output, paragraphs,
                   shown>>

\* Lines 60-62 and 193-203: the rows are rendered in order, then st.success.
Render ==
    /\ pc = "render"
    /\ shown' = [i \in 1..Len(materials) |-> materials[i].Material]
    /\ messages' = messages \cup {"success"}
    /\ pc' = "end"
    /\ UNCHANGED <<user_input, explanation_type, summarized_input, output, paragraphs,
                   idx, image_url, materials, calls>>

Init ==
    /\ MainInit
    /\ fn = "name"
    /\ arg = <<>>
    /\ ret = None

Next ==
    \/ SubmitBlank /\ UNCHANGED lineVars
    \/ Summarize /\ UNCHANGED lineVars
    \/ FetchBrief /\ UNCHANGED lineVars
    \/ FetchDetailed /\ UNCHANGED lineVars
    \/ DisplayTableBegin /\ UNCHANGED lineVars
    \/ DisplayTableStep /\ UNCHANGED lineVars
    \/ Render /\ UNCHANGED lineVars

Spec == Init /\ [][Next]_vars

-----------------------------------------------------------------------------
(* The field extractions on their own: one line in, one field out. *)

MaxNameLen == 6

MaxFieldLen == 4

SeqsUpTo(alphabet, n) == UNION { [1..k -> alphabet] : k \in 0..n }

\* lines[0] of a stripped, non-empty paragraph: not empty, no leading whitespace.
NameLines ==
    { l \in SeqsUpTo({"1", ".", " ", "x", ":"}, MaxNameLen) :
        l # <<>> /\ l[1] \notin Whitespace }

\* lines[1], lines[2], lines[3] of a paragraph: not empty (an empty line would
\* have ended the paragraph), no line break.
FieldLines(label) ==
    SeqsUpTo({label[1], " ", "-", "x", "\t"}, MaxFieldLen) \ {<<>>}

LabelOf(f) ==
    IF f = "properties" THEN PropertiesLabel
    ELSE IF f = "pros" THEN ProsLabel
    ELSE ConsLabel

LineInit ==
    /\ pc = "idle"
    /\ user_input = <<>>
    /\ explanation_type = "Brief"
    /\ summarized_input = None
    /\ output = None
    /\ paragraphs = <<>>
    /\ idx = 1
    /\ image_url = None
    /\ materials = <<>>
    /\ shown = <<>>
    /\ messages = {}
    /\ calls = {}
    /\ ret = None
    /\ \E f \in {"name", "properties", "pros", "cons"} :
         /\ fn = f
         /\ arg \in IF f = "name" THEN NameLines ELSE FieldLines(LabelOf(f))

\* Line 42.
ExtractName ==
    /\ fn = "name" /\ ~ret.some
    /\ ret' = Some(MaterialName(arg))
    /\ UNCHANGED <<fn, arg>>

\* Line 43.
ExtractProperties ==
    /\ fn = "properties" /\ ~ret.some
    /\ ret' = Some(Field(arg, PropertiesLabel))
    /\ UNCHANGED <<fn, arg>>

\* Line 44.
ExtractPros ==
    /\ fn = "pros" /\ ~ret.some
    /\ ret' = Some(Field(arg, ProsLabel))
    /\ UNCHANGED <<fn, arg>>

\* Line 45, a fourth line being there.
ExtractCons ==
    /\ fn = "cons" /\ ~ret.some
    /\ ret' = Some(Field(arg, ConsLabel))
    /\ UNCHANGED <<fn, arg>>

LineNext ==
    \/ ExtractName /\ UNCHANGED mainVars
    \/ ExtractProperties /\ UNCHANGED mainVars
    \/ ExtractPros /\ UNCHANGED mainVars
    \/ ExtractCons /\ UNCHANGED mainVars

SpecLine == LineInit /\ [][LineNext]_vars

-----------------------------------------------------------------------------
(* Properties of the run of main() (specification Spec) *)

Failed == "error: failed to summarize" \in messages \/ "error: fetch raised" \in messages

Succeeded == "success" \in messages

FetchCalled ==
    calls \cap {"fetch_brief_material_suggestions",
                "fetch_detailed_material_suggestions"} # {}

\* Every character of text is whitespace (the empty text included).
AllWhitespace(text) == \A i \in 1..Len(text) : text[i] \in Whitespace

\* The lines of a paragraph block once trimmed.
TrimmedLines(block) == Split(Strip(block), NL)

RECURSIVE SelectFrom(_, _, _)
\* The blocks ps[i], ps[i+1], ..., ps[last] that have at least 3 lines, in order.
SelectFrom(ps, i, last) ==
    IF i > last THEN <<>>
    ELSE (IF Len(TrimmedLines(ps[i])) >= 3 THEN <<ps[i]>> ELSE <<>>)
         \o SelectFrom(ps, i + 1, last)

\* The blocks of ps other than its first and its last that have at least 3 lines.
InnerBlocks(ps) == SelectFrom(ps, 2, Len(ps) - 1)

\* The records are those of the blocks bs, one for one and in order.
RecordsComeFrom(bs) ==
    /\ Len(materials) = Len(bs)
    /\ \A k \in 1..Len(materials) :
         LET lines == TrimmedLines(bs[k])
         IN  /\ materials[k].Material = MaterialName(lines[1])
             /\ materials[k].Properties = Field(lines[2], PropertiesLabel)
             /\ materials[k].Pros = Field(lines[3], ProsLabel)

\* C1 (as claimed): once the fetch function has returned a string, whatever it
\* holds, the run goes through display_table and ends with the success message.
C1_ProseAlwaysReachesDone ==
    (pc = "end" /\ output.some) => ("display_table" \in calls /\ Succeeded)

\* C2: a description that is empty or all whitespace gets the validation warning
\* and no function that calls OpenAI (nor display_table) is ever called.
C2_BlankInputCallsNothing ==
    AllWhitespace(user_input) =>
        /\ calls = {}
        /\ pc \in {"idle", "end"}
        /\ pc = "end" => messages = {"warning: enter a valid project description"}

C2_Witness ==
    /\ pc = "end"
    /\ user_input = <<" ", "\t", "\n">>
    /\ "warning: enter a valid project description" \in messages

\* C3: when summarize_input returns None nothing else is called and the run ends
\* with the error reported; when the fetch function returns None display_table is
\* not called, no image is requested, nothing is rendered, and the run ends with
\* the error reported and without the success message.
C3_StageFailureAborts ==
    /\ ("summarize_input" \in calls /\ ~summarized_input.some) =>
           /\ calls = {"summarize_input"}
           /\ pc = "end" /\ Failed /\ ~Succeeded /\ shown = <<>>
    /\ (FetchCalled /\ ~output.some) =>
           /\ "display_table" \notin calls
           /\ "get_image_from_dalle" \notin calls
           /\ materials = <<>> /\ shown = <<>>
           /\ pc = "end" /\ Failed /\ ~Succeeded

C3_Witness ==
    /\ pc = "end"
    /\ FetchCalled
    /\ ~output.some
    /\ "error: fetch raised" \in messages

\* The paragraph blocks of a response: the pieces between blank lines that hold
\* some text.
ParagraphBlocks(text) ==
    SelectSeq(Split(text, NLNL), LAMBDA piece : ~AllWhitespace(piece))

\* C4: when display_table returns, the records are, one for one and in order,
\* the paragraph blocks with at least 3 lines among those left after splitting
\* the response on blank lines and dropping the first and the last block,
\* whatever the image requests returned; a response of fewer than 3 blocks gives
\* no record; and the rows are then rendered in the order of the records.
C4_RecordsInParagraphOrder ==
    /\ (pc = "render" /\ "display_table" \in calls) =>
           \A ps \in {ParagraphBlocks(output.val)} :
               /\ RecordsComeFrom(InnerBlocks(ps))
               /\ Len(ps) < 3 => materials = <<>>
    /\ pc = "end" =>
           /\ Len(shown) = Len(materials)
           /\ \A k \in 1..Len(shown) : shown[k] = materials[k].Material

C4_Witness ==
    /\ pc = "end"
    /\ Len(materials) = 2
    /\ materials[1].Material = <<"A">> /\ materials[1].Image = NoImage
    /\ materials[2].Material = <<"B">> /\ materials[2].Image = URL
    /\ shown = << <<"A">>, <<"B">> >>

\* C5: the image of every record is the "No Image" marker or a non-empty URL; the
\* record built from a failed image request (an exception, None or an empty URL)
\* carries the marker; and a run in which an image request raised still ends
\* with the success message.
C5_ImageIsUrlOrMarker ==
    /\ \A k \in 1..Len(materials) :
         /\ materials[k].Image # <<>>
         /\ materials[k].Image \in {NoImage, URL}
    /\ (materials # <<>> /\ (~image_url.some \/ image_url.val = <<>>)) =>
           materials[Len(materials)].Image = NoImage
    /\ (materials # <<>> /\ image_url.some /\ image_url.val # <<>>) =>
           materials[Len(materials)].Image = image_url.val
    /\ (pc = "end" /\ "warning: image generation raised" \in messages) => Succeeded

C5_Witness ==
    /\ pc = "end"
    /\ "warning: image generation raised" \in messages
    /\ Len(materials) = 2
    /\ materials[1].Image = URL
    /\ materials[2].Image = NoImage
    /\ Succeeded

\* C6 (as claimed): no record has an empty name.
C6_NameNeverEmpty == \A k \in 1..Len(materials) : materials[k].Material # <<>>

\* A line that is empty or all whitespace.
BlankLine(line) == \A i \in 1..Len(line) : line[i] \in Whitespace

\* The paragraphs display_table has gone through so far.
Processed == 1..(IF pc = "loop" THEN idx - 1 ELSE Len(paragraphs))

\* C7 (as claimed): a block gives a record only if its first three lines are there
\* and none of them is empty or all whitespace.
C7_ThreeNonEmptyLines ==
    pc \in {"loop", "render", "end"} =>
        Len(materials) =
            Cardinality({ i \in Processed :
                LET lines == TrimmedLines(paragraphs[i])
                IN  Len(lines) >= 3 /\ \A j \in 1..3 : ~BlankLine(lines[j]) })

\* C7 (amended): a block gives a record if and only if, once trimmed, it has at
\* least three lines, whatever the second and third line hold; every record has
\* all five fields, and a block that gives none adds nothing.
C7_ThreeLines ==
    pc \in {"loop", "render", "end"} =>
        /\ Len(materials) =
               Cardinality({ i \in Processed : Len(TrimmedLines(paragraphs[i])) >= 3 })
        /\ \A k \in 1..Len(materials) :
               DOMAIN materials[k] = {"Material", "Properties", "Pros", "Cons", "Image"}
        /\ Len(materials) <= Cardinality(Processed)

C7_Witness ==
    /\ pc = "end"
    /\ Len(paragraphs) = 2
    /\ Len(materials) = 1
    /\ Len(TrimmedLines(paragraphs[1])) = 2
    /\ BlankLine(TrimmedLines(paragraphs[2])[2])
    /\ materials[1].Properties = <<>>

-----------------------------------------------------------------------------
(* Properties of the field extractions (specification SpecLine) *)

\* line is d digits, a period, w whitespace characters, a text, a colon and t
\* whitespace characters.
OrdinalForm(line, d, w, t) ==
    /\ d >= 1 /\ w >= 1
    /\ d + w + t + 2 <= Len(line)
    /\ \A i \in 1..d : line[i] \in Digits
    /\ line[d + 1] = "."
    /\ \A i \in (d + 2)..(d + 1 + w) : line[i] \in Whitespace
    /\ line[Len(line) - t] = ":"
    /\ \A i \in (Len(line) - t + 1)..Len(line) : line[i] \in Whitespace

\* The text between the ordinal prefix and the colon.
TextOf(line, d, w, t) == SubSeq(line, d + w + 2, Len(line) - t - 1)

\* C8 (as claimed): when line 0 is digits, a period, whitespace, a text and a
\* final colon, possibly followed by whitespace, the name is the text, trimmed.
C8_NameIsTextOfOrdinalLine ==
    (fn = "name" /\ ret.some) =>
        \A d \in 1..Len(arg), w \in 1..Len(arg), t \in 0..Len(arg) :
            OrdinalForm(arg, d, w, t) => ret.val = Strip(TextOf(arg, d, w, t))

\* The same with the colon as the last character of the line.
NameIsTextWhenColonIsLast ==
    (fn = "name" /\ ret.some) =>
        \A d \in 1..Len(arg), w \in 1..Len(arg) :
            OrdinalForm(arg, d, w, 0) => ret.val = Strip(TextOf(arg, d, w, 0))

IsLabelRun == fn \in {"properties", "pros", "cons"} /\ ret.some

\* The label occurs somewhere in line.
HasLabel(line, label) ==
    \E i \in 1..Len(line) : StartsWith(Drop(line, i - 1), label)

\* C9 (as claimed): stripping the result of the stripping changes nothing.
C9_StrippingIdempotent ==
    IsLabelRun => Field(ret.val, LabelOf(fn)) = ret.val

\* C9 (amended): stripping the result of the stripping changes nothing, for
\* every line whose only whitespace is the blank and in which deleting the
\* occurrences of the label leaves no occurrence of it.
C9_StrippingIdempotentOnPlainLines ==
    (/\ IsLabelRun
     /\ \A i \in 1..Len(arg) : arg[i] \in Whitespace => arg[i] = " "
     /\ ~HasLabel(Replace(arg, LabelOf(fn)), LabelOf(fn)))
    => Field(ret.val, LabelOf(fn)) = ret.val

C9_Witness ==
    /\ fn = "properties"
    /\ arg = <<"Properties:", " ", "-", "x">>
    /\ ret = Some(<<"x">>)
    /\ Field(ret.val, PropertiesLabel) = <<"x">>

\* The extraction rule as stated: the label goes only where the line starts with
\* it and the rest of the line is kept; the leading hyphen-bullet and the
\* trimming are taken the way lines 43-45 take them.
StatedField(line, label) ==
    LET rest == IF StartsWith(line, label) THEN Drop(line, Len(label)) ELSE line
    IN  Strip(LStripChars(rest, {"-", " "}))

\* C10 (as claimed): each field is its line under the stated rule.
C10_FieldFollowsStatedRule ==
    IsLabelRun => ret.val = StatedField(arg, LabelOf(fn))

=============================================================================
